---- MODULE Spec2Model ----
(***************************************************************************)
(* FinSight: the metric engine (app/services/analytics.py), the SQLite     *)
(* store (app/db/session.py), POST /add_ticker (app/main.py) and the       *)
(* command line (app/cli.py).                                              *)
(*                                                                         *)
(* Three specifications share the variables:                               *)
(*    Spec       invocations of compute_metrics_for_prices on frames       *)
(*    StoreSpec  direct calls of upsert_prices, upsert_metrics and         *)
(*               fetch_latest_metrics                                      *)
(*    AppSpec    add_ticker and the runs of the command line against the   *)
(*               store, with the data source moving on day by day          *)
(* prices and metrics are the tables, hist the upsert calls made so far,   *)
(* resp what the last operation returned or wrote, cli the running command *)
(* line, day the day of the data source.                                   *)
(*                                                                         *)
(* compute_metrics_for_prices is a pure function of a price DataFrame.     *)
(* The model keeps the DataFrame handed to it (df), the pandas/numpy build *)
(* it runs on (build), the outcome of the last invocation (result) and the *)
(* input and outcome of the invocation before that (base), so that two     *)
(* invocations on related inputs can be compared.                          *)
(*                                                                         *)
(* A float64 cell is one of                                                *)
(*    <<"nan">>            NaN / missing                                   *)
(*    <<"inf", s>>         +inf (s = 1) or -inf (s = -1)                   *)
(*    <<"fin", n, d>>      the finite number n/d (d > 0, lowest terms)     *)
(*    <<"mean", obs>>      finite: arithmetic mean of the cells obs        *)
(*    <<"std", obs>>       finite, > 0: sample std (ddof = 1) of obs       *)
(*    <<"div", a, b>>      finite: a / b with b finite and non-zero        *)
(* A statistic over a window whose observations are all equal is given     *)
(* exactly (mean = the value, std = 0); otherwise it is kept as the        *)
(* statistic applied to its exact operands, so equal cells are equal       *)
(* floats and the zero / NaN / inf cases of the code are exact.            *)
(***************************************************************************)
EXTENDS Integers, Sequences, FiniteSets, TLC

VARIABLES df, build, result, base, prices, metrics, hist, resp, cli, day

vars == <<df, build, result, base, prices, metrics, hist, resp, cli, day>>

(* the frame under computation, and the store with its callers *)
engineVars == <<df, build, result, base>>

appVars == <<prices, metrics, hist, resp, cli, day>>

----------------------------------------------------------------------------
(* Program constants *)

W20 == 20
W50 == 50
W60 == 60
TestLen == 130

(* Bounds of the model *)

MaxExtra == 3
PerturbSpan == 2
MaxBatch == 2
MaxCalls == 2
MaxDay == 1

----------------------------------------------------------------------------
(* float64 cells *)

NaN == <<"nan">>
PosInf == <<"inf", 1>>
NegInf == <<"inf", -1>>

Abs(n) == IF n < 0 THEN -n ELSE n

Max(a, b) == IF a < b THEN b ELSE a

RECURSIVE GCD(_, _)
GCD(a, b) == IF b = 0 THEN a ELSE GCD(b, a % b)

Rat(n, d) ==
  LET g == GCD(Abs(n), Abs(d))
      s == IF d < 0 THEN -1 ELSE 1
  IN <<"fin", (s * n) \div g, (s * d) \div g>>

Zero == Rat(0, 1)

isna(c) == c = NaN

IsFinite(c) == c[1] \notin {"nan", "inf"}

RatLess(a, b) == a[2] * b[3] < b[2] * a[3]

(* the sequence f[1], ..., f[n] *)
AsSeq(f, n) == SubSeq(f, 1, n)

AllEqual(obs) == \A j \in 1..Len(obs) : obs[j] = obs[1]

(* a division that answers 0 for a zero divisor *)
Div_ZeroForZeroDivisor(a, b) ==
  IF isna(a) \/ isna(b) THEN NaN
  ELSE IF b = Zero THEN Zero
  ELSE <<"div", a, b>>

(* float division a / b as numpy does it: 0/0 = NaN, x/0 = +-inf *)
Div(a, b) ==
  IF isna(a) \/ isna(b) THEN NaN
  ELSE IF b = Zero
       THEN IF a[1] = "fin" /\ a[2] = 0 THEN NaN
            ELSE IF a[1] = "fin" /\ a[2] < 0 THEN NegInf
            ELSE PosInf
       ELSE <<"div", a, b>>

----------------------------------------------------------------------------
(* _ensure_datetime_and_sort *)

(* dates are day ordinals; the Timestamp of a day is its midnight, kept as
   the same ordinal *)
to_datetime(d) == d

(* sort_values(by=date) uses numpy's quicksort, which is not stable: the
   order of records with equal dates depends on the build and on the array
   that is sorted.  "keep" leaves equal dates in input order, "swap"
   reverses them, "bylen" keeps them in arrays of even length and reverses
   them in arrays of odd length. *)
TieOrder(ties, n) ==
  IF ties = "bylen" THEN (IF n % 2 = 0 THEN "keep" ELSE "swap") ELSE ties

(* SortRank is the place of record k in the sorted frame *)
SortRank(recs, k, ties) ==
  1 + Cardinality({j \in 1..Len(recs) :
                     \/ recs[j].date < recs[k].date
                     \/ /\ recs[j].date = recs[k].date
                        /\ IF TieOrder(ties, Len(recs)) = "keep" THEN j < k ELSE j > k})

sort_values(recs, ties) ==
  LET rank == AsSeq([k \in 1..Len(recs) |-> SortRank(recs, k, ties)], Len(recs))
  IN AsSeq([p \in 1..Len(recs) |-> recs[CHOOSE k \in 1..Len(recs) : rank[k] = p]],
           Len(recs))

_ensure_datetime_and_sort(recs, ties) ==
  sort_values(AsSeq([i \in 1..Len(recs) |->
                        [date |-> to_datetime(recs[i].date), close |-> recs[i].close]],
                     Len(recs)),
              ties)

----------------------------------------------------------------------------
(* Series.pct_change *)

(* fillna(method="pad"): a missing value takes the last value before it *)
ffill(s) ==
  AsSeq([i \in 1..Len(s) |->
           IF ~isna(s[i]) THEN s[i]
           ELSE LET seen == {j \in 1..i : ~isna(s[j])}
                IN IF seen = {} THEN NaN
                   ELSE s[CHOOSE j \in seen : \A k \in seen : k <= j]],
        Len(s))

(* the price ratio, without the - 1 *)
PctCell_Ratio(prev, cur) ==
  IF isna(prev) \/ isna(cur) THEN NaN
  ELSE IF prev[2] = 0
       THEN IF cur[2] = 0 THEN NaN
            ELSE IF cur[2] > 0 THEN PosInf ELSE NegInf
       ELSE Rat(cur[2] * prev[3], prev[2] * cur[3])

(* cur / prev - 1 in float64 *)
PctCell(prev, cur) ==
  IF isna(prev) \/ isna(cur) THEN NaN
  ELSE IF prev[2] = 0
       THEN IF cur[2] = 0 THEN NaN
            ELSE IF cur[2] > 0 THEN PosInf ELSE NegInf
       ELSE Rat(cur[2] * prev[3] - prev[2] * cur[3], prev[2] * cur[3])

(* pct_change().fillna(0): the first return is 0 instead of missing *)
pct_change_FirstZero(close, pad) ==
  LET data == IF pad THEN ffill(close) ELSE close
  IN AsSeq([i \in 1..Len(close) |->
              IF i = 1 THEN Zero
              ELSE IF isna(data[i - 1]) \/ isna(data[i]) THEN NaN
              ELSE IF data[i - 1][2] = 0
                   THEN IF data[i][2] = 0 THEN NaN ELSE PosInf
                   ELSE Rat(data[i][2] * data[i - 1][3] - data[i - 1][2] * data[i][3],
                            data[i - 1][2] * data[i][3])],
           Len(close))

(* pandas < 3 pads missing closes before dividing (fill_method="pad"),
   pandas >= 3 does not: pad is the build's choice *)
pct_change(close, pad) ==
  LET data == IF pad THEN ffill(close) ELSE close
  IN AsSeq([i \in 1..Len(close) |->
              IF i = 1 THEN NaN ELSE PctCell(data[i - 1], data[i])],
           Len(close))

----------------------------------------------------------------------------
(* Series.rolling(window, min_periods, closed="left") *)

(* closed="right", the default: rows i-window+1 .. i, row i included *)
Window_ClosedRight(s, i, window) == SubSeq(s, Max(1, i - window + 1), i)

(* closed="left": the window of row i is rows i-window .. i-1, clipped to
   the series; row i itself is left out *)
Window(s, i, window) == SubSeq(s, Max(1, i - window), i - 1)

(* the observations of the window: NaN is skipped, and inf is turned into
   NaN before the aggregation *)
RollingObs(s, i, window) == SelectSeq(Window(s, i, window), IsFinite)

Mean(obs) == IF AllEqual(obs) THEN obs[1] ELSE <<"mean", obs>>

Std(obs) ==
  IF Len(obs) < 2 THEN NaN
  ELSE IF AllEqual(obs) THEN Zero ELSE <<"std", obs>>

(* fewer than min_periods observations in the window give NaN *)
TooFew(s, i, window, min_periods) ==
  \/ Len(Window(s, i, window)) < min_periods
  \/ Len(RollingObs(s, i, window)) < min_periods

rolling_mean(s, window, min_periods) ==
  AsSeq([i \in 1..Len(s) |->
           IF TooFew(s, i, window, min_periods) THEN NaN
           ELSE Mean(RollingObs(s, i, window))],
        Len(s))

rolling_std(s, window, min_periods) ==
  AsSeq([i \in 1..Len(s) |->
           IF TooFew(s, i, window, min_periods) THEN NaN
           ELSE Std(RollingObs(s, i, window))],
        Len(s))

----------------------------------------------------------------------------
(* compute_metrics_for_prices *)

required_cols == <<"date", "close">>

DropSubset == {"vol20", "vol60", "sma20", "sma50", "sharpe20", "sharpe60"}

NumericFields == DropSubset \cup {"return"}

(* the frame assembled at lines 78-87, before dropna *)
Candidates(recs, b) ==
  LET sorted == _ensure_datetime_and_sort(recs, b.ties)
      close == AsSeq([i \in 1..Len(sorted) |-> sorted[i].close], Len(sorted))
      ret == pct_change(close, b.pad)
      vol20 == rolling_std(ret, W20, W20)
      vol60 == rolling_std(ret, W60, W60)
      sma20 == rolling_mean(close, W20, W20)
      sma50 == rolling_mean(close, W50, W50)
      mean20 == rolling_mean(ret, W20, W20)
      mean60 == rolling_mean(ret, W60, W60)
      sharpe20 == AsSeq([i \in 1..Len(sorted) |-> Div(mean20[i], vol20[i])], Len(sorted))
      sharpe60 == AsSeq([i \in 1..Len(sorted) |-> Div(mean60[i], vol60[i])], Len(sorted))
  IN AsSeq([i \in 1..Len(sorted) |->
              [date |-> sorted[i].date,
               return |-> ret[i],
               vol20 |-> vol20[i],
               vol60 |-> vol60[i],
               sma20 |-> sma20[i],
               sma50 |-> sma50[i],
               sharpe20 |-> sharpe20[i],
               sharpe60 |-> sharpe60[i]]],
           Len(sorted))

Complete(row) == \A f \in DropSubset : ~isna(row[f])

dropna(rows) == SelectSeq(rows, Complete)

(* only the first required column is looked for *)
MissingCol_FirstOnly(cols) ==
  IF required_cols[1] \notin cols THEN required_cols[1] ELSE "none"

MissingCol(cols) ==
  IF required_cols[1] \notin cols THEN required_cols[1]
  ELSE IF required_cols[2] \notin cols THEN required_cols[2]
  ELSE "none"

compute_metrics_for_prices(frame, b) ==
  IF MissingCol(frame.cols) # "none"
  THEN [status |-> "ValueError", col |-> MissingCol(frame.cols), rows |-> <<>>]
  ELSE [status |-> "ok", col |-> "none",
        rows |-> dropna(Candidates(frame.recs, b))]

----------------------------------------------------------------------------
(* Inputs *)

Families == {"flat", "linear", "zigzag", "zero", "geom", "dup", "null"}

Lens == {0, 1, W20, W50} \cup (W60 .. W60 + MaxExtra)

GeomStart == W60 - W20 + 1

Closes(fam, n) ==
  [i \in 1..n |->
     LET zig == IF i % 2 = 1 THEN Rat(1, 1) ELSE Rat(2, 1)
     IN CASE fam = "flat" -> Rat(5, 1)
          [] fam = "linear" -> Rat(200 + (i - 1), 2)
          [] fam = "zigzag" -> zig
          [] fam = "zero" -> IF i = n - 1 THEN Zero ELSE zig
          [] fam = "geom" -> IF i <= GeomStart THEN Rat(1, 1)
                             ELSE Rat(2 ^ (i - GeomStart), 1)
          [] fam = "dup" -> IF i = n THEN Rat(4, 1) ELSE zig
          [] fam = "null" -> IF i = n - 1 THEN NaN ELSE zig]

Dates(fam, n) ==
  [i \in 1..n |-> IF fam = "dup" /\ n >= 3 /\ i > n - 2 THEN n - 2 ELSE i]

Frame(fam, n, cols) ==
  [cols |-> cols,
   recs |-> AsSeq([i \in 1..n |-> [date |-> Dates(fam, n)[i], close |-> Closes(fam, n)[i]]], n)]

AllCols == {"date", "close"}

Inputs ==
  {Frame(fam, n, AllCols) : fam \in Families, n \in Lens}
  \cup {Frame("linear", TestLen, AllCols)}
  \cup {Frame("zigzag", n, cols) : n \in Lens, cols \in SUBSET AllCols}

Builds == [ties : {"keep", "swap", "bylen"}, pad : BOOLEAN]

NoResult == [status |-> "none", col |-> "none", rows |-> <<>>]

NoBase == [df |-> [cols |-> {}, recs |-> <<>>], result |-> NoResult]

(* nothing was called yet / no command line is running *)
NoResp == [op |-> "none", ticker |-> <<>>, rows |-> <<>>, status |-> 0]

Idle == [pc |-> "idle", cmd |-> "none", ticker |-> <<>>, tickers |-> <<>>, idx |-> 0,
         processed |-> 0, errors |-> <<>>, attempted |-> <<>>, log |-> <<>>,
         raised |-> "none", fetched |-> FALSE, ret |-> 0, code |-> 0]

(* the tables right after create_schema *)
EmptyStore ==
  /\ prices = {}
  /\ metrics = {}
  /\ hist = <<>>
  /\ resp = NoResp
  /\ cli = Idle
  /\ day = 0

----------------------------------------------------------------------------
(* Behaviour *)

Init ==
  /\ df \in Inputs
  /\ build \in Builds
  /\ result = NoResult
  /\ base = NoBase
  /\ EmptyStore

(* no copy is made and the frame is sorted in place: the caller's frame comes
   back sorted, with the return column added *)
LeftWithCaller_InPlace(frame, b) ==
  IF MissingCol(frame.cols) # "none" THEN frame
  ELSE [cols |-> frame.cols \cup {"return"},
        recs |-> _ensure_datetime_and_sort(frame.recs, b.ties)]

(* the caller's frame after the call: _ensure_datetime_and_sort starts with
   df = df.copy(), so the conversion of the dates, the sort and the return
   column all land on frames of the callee *)
LeftWithCaller(frame, b) == frame

(* one call of compute_metrics_for_prices(df) *)
Invoke ==
  /\ result.status = "none"
  /\ result' = compute_metrics_for_prices(df, build)
  /\ df' = LeftWithCaller(df, build)
  /\ UNCHANGED <<build, base>>
  /\ UNCHANGED appVars

(* the caller hands over the same records in reverse order *)
Reverse(recs) == AsSeq([i \in 1..Len(recs) |-> recs[Len(recs) + 1 - i]], Len(recs))

(* the caller hands over the same records, the first one moved to the end *)
Rotate(recs) ==
  IF recs = <<>> THEN recs ELSE Append(SubSeq(recs, 2, Len(recs)), recs[1])

(* the caller changes the close of record i *)
SetClose(recs, i, c) == [recs EXCEPT ![i].close = c]

PerturbVals == {Zero, Rat(3, 1)}

Rebase(recs) ==
  /\ result.status = "ok"
  /\ base = NoBase
  /\ base' = [df |-> df, result |-> result]
  /\ df' = [df EXCEPT !.recs = recs]
  /\ result' = NoResult
  /\ UNCHANGED build
  /\ UNCHANGED appVars

PermuteInput == Rebase(Reverse(df.recs)) \/ Rebase(Rotate(df.recs))

(* after the computation on the derived input the caller hands over the
   first input once more *)
RepeatInput ==
  /\ result.status = "ok"
  /\ base # NoBase
  /\ df # base.df
  /\ df' = base.df
  /\ result' = NoResult
  /\ UNCHANGED <<build, base>>
  /\ UNCHANGED appVars

LastDate(recs) ==
  IF recs = <<>> THEN 0
  ELSE CHOOSE d \in {recs[i].date : i \in 1..Len(recs)} :
         \A i \in 1..Len(recs) : recs[i].date <= d

(* the caller adds observations dated after every date it has *)
Extend(recs, closes) ==
  recs \o AsSeq([j \in 1..Len(closes) |->
                   [date |-> LastDate(recs) + j, close |-> closes[j]]],
                Len(closes))

NewCloses == {<<Rat(3, 1)>>}

AppendInput == \E closes \in NewCloses : Rebase(Extend(df.recs, closes))

PerturbInput ==
  \E i \in 1..Len(df.recs), c \in PerturbVals :
     /\ i > Len(df.recs) - PerturbSpan
     /\ Rebase(SetClose(df.recs, i, c))

Next == Invoke \/ PermuteInput \/ PerturbInput \/ RepeatInput \/ AppendInput

Spec == Init /\ [][Next]_vars

----------------------------------------------------------------------------
(* Text: dates as stored, tickers as typed *)

(* strftime("%Y-%m-%d"): the day as zero-padded digits of fixed width *)
strftime(d) == <<d \div 100, (d \div 10) % 10, d % 10>>

(* pd.to_datetime of a stored date text *)
ParseDate(text) ==
  IF Len(text) = 1 THEN text[1]
  ELSE IF Len(text) = 2 THEN 10 * text[1] + text[2]
  ELSE 100 * text[1] + 10 * text[2] + text[3]

(* SQLite's comparison of TEXT values: by the first differing character, a
   proper prefix first *)
TextLess(a, b) ==
  \/ \E i \in 1..Len(a) :
        /\ i <= Len(b)
        /\ a[i] < b[i]
        /\ \A j \in 1..(i - 1) : a[j] = b[j]
  \/ /\ Len(a) < Len(b)
     /\ \A j \in 1..Len(a) : a[j] = b[j]

CharCode(c) ==
  CASE c = " " -> 32 [] c = "A" -> 65 [] c = "B" -> 66
    [] c = "a" -> 97 [] c = "b" -> 98

Codes(t) == AsSeq([i \in 1..Len(t) |-> CharCode(t[i])], Len(t))

Upper(c) == CASE c = "a" -> "A" [] c = "b" -> "B" [] OTHER -> c

strip(t) ==
  LET ink == {i \in 1..Len(t) : t[i] # " "}
  IN IF ink = {} THEN <<>>
     ELSE SubSeq(t, CHOOSE i \in ink : \A j \in ink : i <= j,
                    CHOOSE i \in ink : \A j \in ink : i >= j)

_normalize_ticker(t) ==
  AsSeq([i \in 1..Len(strip(t)) |-> Upper(strip(t)[i])], Len(strip(t)))

----------------------------------------------------------------------------
(* The store: tables prices and metrics, UNIQUE(ticker, date).  A table is
   the set of its rows; of a price row the close stands for open, high, low
   and volume too, which are written and overwritten with it. *)

KeyOf(r) == <<r.ticker, r.date>>

Keys(table) == {KeyOf(r) : r \in table}

(* INSERT OR IGNORE: a row whose key is taken is skipped *)
executemany_FirstWins(table, rows) ==
  table \cup {rows[i] : i \in {k \in 1..Len(rows) :
                                  /\ KeyOf(rows[k]) \notin Keys(table)
                                  /\ \A j \in 1..(k - 1) : KeyOf(rows[j]) # KeyOf(rows[k])}}

(* cur.executemany(INSERT ... ON CONFLICT(ticker, date) DO UPDATE SET ...):
   the rows are written one after the other, a row whose key is taken
   replaces the values stored under that key *)
executemany(table, rows) ==
  {r \in table : \A i \in 1..Len(rows) : KeyOf(rows[i]) # KeyOf(r)}
  \cup {rows[i] : i \in {k \in 1..Len(rows) :
                           \A j \in (k + 1)..Len(rows) : KeyOf(rows[j]) # KeyOf(rows[k])}}

upsert_prices(table, rows) ==
  IF rows = <<>> THEN table ELSE executemany(table, rows)

(* DELETE of the ticker's rows, then INSERT of the batch *)
upsert_metrics_Replace(table, rows) ==
  IF rows = <<>> THEN table
  ELSE executemany({r \in table : \A i \in 1..Len(rows) : rows[i].ticker # r.ticker}, rows)

upsert_metrics(table, rows) ==
  IF rows = <<>> THEN table ELSE executemany(table, rows)

(* SELECT ticker, MIN(date): the earliest date of the group *)
MaxDate_Min(table, t) ==
  CHOOSE d \in {r.date : r \in {q \in table : q.ticker = t}} :
    \A r \in {q \in table : q.ticker = t} : r.date = d \/ TextLess(d, r.date)

(* SELECT ticker, MAX(date) AS max_date FROM metrics GROUP BY ticker *)
MaxDate(table, t) ==
  CHOOSE d \in {r.date : r \in {q \in table : q.ticker = t}} :
    \A r \in {q \in table : q.ticker = t} : r.date = d \/ TextLess(r.date, d)

(* ORDER BY ticker, for rows of pairwise different tickers *)
OrderByTicker(rows) ==
  AsSeq([i \in 1..Cardinality(rows) |->
           CHOOSE r \in rows :
             Cardinality({q \in rows : TextLess(Codes(q.ticker), Codes(r.ticker))}) = i - 1],
        Cardinality(rows))

fetch_latest_metrics(table) ==
  OrderByTicker({m \in table : m.date = MaxDate(table, m.ticker)})

(* SELECT DISTINCT ticker FROM prices UNION SELECT DISTINCT ticker FROM
   metrics ORDER BY 1 *)
_get_tracked_tickers(ptable, mtable) ==
  LET found == {[ticker |-> r.ticker] : r \in ptable} \cup {[ticker |-> r.ticker] : r \in mtable}
      ordered == OrderByTicker(found)
  IN AsSeq([i \in 1..Len(ordered) |-> ordered[i].ticker], Len(ordered))

----------------------------------------------------------------------------
(* Direct calls of the store helpers *)

Ticker_A == <<"A">>
Ticker_B == <<"B">>

PriceRow(t, d, v) == [ticker |-> t, date |-> strftime(d), close |-> v]

MetricRow(t, d, v) ==
  [ticker |-> t, date |-> strftime(d), return |-> v, vol20 |-> v, vol60 |-> v,
   sma20 |-> v, sma50 |-> v, sharpe20 |-> v, sharpe60 |-> v]

(* the records the callers hand over: each carries ticker and date, as the
   helpers require; two of them differ in the values only, the dates are of
   different digit counts before padding *)
PriceRecs ==
  {PriceRow(Ticker_B, 10, Rat(1, 1)), PriceRow(Ticker_B, 10, Rat(2, 1))}

MetricRecs ==
  {MetricRow(Ticker_A, 9, Rat(1, 1)), MetricRow(Ticker_A, 9, Rat(2, 1)),
   MetricRow(Ticker_A, 10, Rat(1, 1)), MetricRow(Ticker_B, 9, Rat(1, 1))}

Batches(recs) == UNION {[1..n -> recs] : n \in 0..MaxBatch}

Call(op, rows) == [op |-> op, ticker |-> <<>>, rows |-> rows, status |-> 0]

(* the store is empty; nothing is computed in these calls *)
StoreInit ==
  /\ df = [cols |-> AllCols, recs |-> <<>>]
  /\ build = [ties |-> "keep", pad |-> FALSE]
  /\ result = NoResult
  /\ base = NoBase
  /\ EmptyStore

CallUpsertPrices ==
  \E rows \in Batches(PriceRecs) :
     /\ Len(hist) < MaxCalls
     /\ prices' = upsert_prices(prices, rows)
     /\ hist' = Append(hist, Call("upsert_prices", rows))
     /\ resp' = Call("upsert_prices", <<>>)
     /\ UNCHANGED <<metrics, cli, day>>
     /\ UNCHANGED engineVars

CallUpsertMetrics ==
  \E rows \in Batches(MetricRecs) :
     /\ Len(hist) < MaxCalls
     /\ metrics' = upsert_metrics(metrics, rows)
     /\ hist' = Append(hist, Call("upsert_metrics", rows))
     /\ resp' = Call("upsert_metrics", <<>>)
     /\ UNCHANGED <<prices, cli, day>>
     /\ UNCHANGED engineVars

CallFetchLatest ==
  /\ resp.op # "fetch_latest_metrics"
  /\ resp' = Call("fetch_latest_metrics", fetch_latest_metrics(metrics))
  /\ UNCHANGED <<prices, metrics, hist, cli, day>>
  /\ UNCHANGED engineVars

StoreNext == CallUpsertPrices \/ CallUpsertMetrics \/ CallFetchLatest

StoreSpec == StoreInit /\ [][StoreNext]_vars

----------------------------------------------------------------------------
(* The data source (yfinance) *)

Zig(d) == IF d % 2 = 1 THEN Rat(1, 1) ELSE Rat(2, 1)

(* the shortest history for which a metric row comes out *)
HistLen == W60 + 2

Bar(d, c) == [date |-> d, close |-> c]

(* what yf.download returns for a ticker on a day: A has a long history and
   the period slides with the day; B is newly listed, its first two bars
   carry no close; any other symbol is unknown *)
Market(t, d) ==
  IF t = Ticker_A
  THEN AsSeq([i \in 1..HistLen |-> Bar(d + i, Zig(d + i))], HistLen)
  ELSE IF t = Ticker_B
  THEN AsSeq([i \in 1..(2 + d) |-> Bar(W60 + i, IF i <= 2 THEN NaN ELSE Zig(i))], 2 + d)
  ELSE <<>>

(* what can go wrong in one pass over a ticker: the download comes back
   empty, the write of the prices fails, the write of the metrics fails *)
Faults == {"none", "nodata", "prices", "metrics"}

HasClose(r) == ~isna(r.close)

(* _download_prices_for_ticker: RuntimeError on an empty frame, else the
   dates as text and the rows without close dropped *)
_download_prices_for_ticker(bars, fault) ==
  IF fault = "nodata" \/ bars = <<>>
  THEN [raised |-> TRUE, rows |-> <<>>]
  ELSE [raised |-> FALSE,
        rows |-> SelectSeq(AsSeq([i \in 1..Len(bars) |->
                                    [date |-> strftime(bars[i].date), close |-> bars[i].close]],
                                 Len(bars)),
                           HasClose)]

Null == <<"null">>

NoneIfNa(x) == IF isna(x) THEN Null ELSE x

(* lines 87-104: compute_metrics_for_prices on the date and close columns,
   then one mapping per row *)
metrics_rows(t, rows, b) ==
  LET frame == [cols |-> AllCols,
                recs |-> AsSeq([i \in 1..Len(rows) |->
                                  [date |-> ParseDate(rows[i].date), close |-> rows[i].close]],
                               Len(rows))]
      out == compute_metrics_for_prices(frame, b).rows
  IN AsSeq([k \in 1..Len(out) |->
              [ticker |-> t,
               date |-> strftime(out[k].date),
               return |-> NoneIfNa(out[k].return),
               vol20 |-> NoneIfNa(out[k].vol20),
               vol60 |-> NoneIfNa(out[k].vol60),
               sma20 |-> NoneIfNa(out[k].sma20),
               sma50 |-> NoneIfNa(out[k].sma50),
               sharpe20 |-> NoneIfNa(out[k].sharpe20),
               sharpe60 |-> NoneIfNa(out[k].sharpe60)]],
           Len(out))

(* line 83: the ticker is attached to every price row *)
price_rows(t, rows) ==
  AsSeq([i \in 1..Len(rows) |->
           [ticker |-> t, date |-> rows[i].date, close |-> rows[i].close]],
        Len(rows))

(* the writes of one pass: upsert_prices, then upsert_metrics if a metric
   row came out.  upsert_* touch the database, and so can fail, only when
   handed a row; a failed write leaves its table as it was. *)
Writes(ptable, mtable, fault, raised, prows, mrows) ==
  IF raised
  THEN [failed |-> "download", prices |-> ptable, metrics |-> mtable, rows |-> <<>>]
  ELSE IF prows # <<>> /\ fault = "prices"
  THEN [failed |-> "store", prices |-> ptable, metrics |-> mtable, rows |-> <<>>]
  ELSE IF mrows # <<>> /\ fault = "metrics"
  THEN [failed |-> "store", prices |-> upsert_prices(ptable, prows),
        metrics |-> mtable, rows |-> <<>>]
  ELSE [failed |-> "none", prices |-> upsert_prices(ptable, prows),
        metrics |-> upsert_metrics(mtable, mrows), rows |-> mrows]

Prepared(ptable, mtable, t, dl, fault, b) ==
  Writes(ptable, mtable, fault, dl.raised, price_rows(t, dl.rows), metrics_rows(t, dl.rows, b))

(* one pass over a ticker, as in cmd_refresh lines 80-105 and in add_ticker
   lines 122-147: download, upsert_prices, compute, upsert_metrics *)
Ingest(ptable, mtable, t, bars, fault, b) ==
  Prepared(ptable, mtable, t, _download_prices_for_ticker(bars, fault), fault, b)

----------------------------------------------------------------------------
(* POST /add_ticker *)

RawTickers == {<<" ", "a">>, <<"B">>}

(* the store is empty and no frame is under computation; the frames of the
   data source have no repeated date and, once the rows without close are
   dropped, no missing close, so every build computes the same rows from
   them and one build stands for all *)
AppInit ==
  /\ df = [cols |-> AllCols, recs |-> <<>>]
  /\ build = [ties |-> "keep", pad |-> FALSE]
  /\ result = NoResult
  /\ base = NoBase
  /\ EmptyStore

(* the data source moves on by a day *)
Tick ==
  /\ day < MaxDay
  /\ cli.pc = "idle"
  /\ day' = day + 1
  /\ UNCHANGED <<prices, metrics, hist, resp, cli>>
  /\ UNCHANGED engineVars

(* 404 for an empty download, 500 for any other failure, else 201 *)
add_ticker ==
  \E raw \in RawTickers, fault \in Faults :
     /\ cli.pc = "idle"
     /\ \E ticker \in {_normalize_ticker(raw)} :
        \E done \in {Ingest(prices, metrics, ticker, Market(ticker, day), fault, build)} :
           /\ prices' = done.prices
           /\ metrics' = done.metrics
           /\ resp' = [op |-> "add_ticker", ticker |-> ticker, rows |-> done.rows,
                       status |-> IF done.failed = "download" THEN 404
                                  ELSE IF done.failed = "store" THEN 500
                                  ELSE 201]
           /\ UNCHANGED <<hist, cli, day>>
           /\ UNCHANGED engineVars

----------------------------------------------------------------------------
(* The command line *)

Commands == {"refresh", "metrics"}

(* --ticker as typed; the empty text is accepted by the parser *)
TickerArgs == {<<>>, <<"a">>, <<"B">>}

(* main up to the call of create_schema: the arguments are parsed *)
main ==
  \E cmd \in Commands, arg \in TickerArgs :
     /\ cli.pc = "idle"
     /\ cmd = "refresh" => arg = <<>>
     /\ cli' = [Idle EXCEPT !.pc = "create_schema", !.cmd = cmd, !.ticker = arg]
     /\ UNCHANGED <<prices, metrics, hist, resp, day>>
     /\ UNCHANGED engineVars

(* what the subcommand returned, whether it raised or not *)
MainCode_Uncaught(raised, ret) == ret

(* what main returns: 1 when the subcommand raised, else the subcommand's
   return value *)
MainCode(raised, ret) == IF raised THEN 1 ELSE ret

(* CREATE TABLE IF NOT EXISTS leaves existing tables alone; when it raises,
   main returns 1 *)
create_schema ==
  \E ok \in BOOLEAN :
     /\ cli.pc = "create_schema"
     /\ cli' = IF ok
               THEN [cli EXCEPT !.pc = "cmd_" \o cli.cmd, !.log = Append(@, "create_schema")]
               ELSE [cli EXCEPT !.pc = "exit", !.log = Append(@, "create_schema"),
                                !.raised = "create_schema", !.code = 1]
     /\ UNCHANGED <<prices, metrics, hist, resp, day>>
     /\ UNCHANGED engineVars

(* cmd_refresh lines 71-77: the read of the tracked tickers is outside any
   try, so its failure leaves cmd_refresh and main returns 1 *)
cmd_refresh ==
  \E ok \in BOOLEAN :
     LET tickers == _get_tracked_tickers(prices, metrics)
     IN /\ cli.pc = "cmd_refresh"
        /\ cli' = IF ~ok
                  THEN [cli EXCEPT !.pc = "exit", !.log = Append(@, "cmd_refresh"),
                                   !.raised = "subcommand", !.code = MainCode(TRUE, 0)]
                  ELSE IF tickers = <<>>
                  THEN [cli EXCEPT !.pc = "exit", !.log = Append(@, "cmd_refresh"),
                                   !.ret = 0, !.code = MainCode(FALSE, 0)]
                  ELSE [cli EXCEPT !.pc = "loop", !.log = Append(@, "cmd_refresh"),
                                   !.tickers = tickers, !.idx = 1]
        /\ UNCHANGED <<prices, metrics, hist, resp, day>>
        /\ UNCHANGED engineVars

(* the first failure ends the loop *)
AfterTicker_Abort(c, ticker, failed) ==
  IF failed
  THEN [c EXCEPT !.errors = Append(@, ticker), !.attempted = Append(@, ticker),
                 !.idx = Len(c.tickers) + 1]
  ELSE [c EXCEPT !.processed = @ + 1, !.attempted = Append(@, ticker), !.idx = @ + 1]

(* lines 106-110: a pass that raised is recorded as an error of its ticker,
   one that did not is counted as processed; the loop goes on either way *)
AfterTicker(c, ticker, failed) ==
  IF failed
  THEN [c EXCEPT !.errors = Append(@, ticker), !.attempted = Append(@, ticker),
                 !.idx = @ + 1]
  ELSE [c EXCEPT !.processed = @ + 1, !.attempted = Append(@, ticker), !.idx = @ + 1]

(* one round of the loop of cmd_refresh *)
refresh_ticker ==
  \E fault \in Faults :
     /\ cli.pc = "loop"
     /\ cli.idx <= Len(cli.tickers)
     /\ \E ticker \in {cli.tickers[cli.idx]} :
        \E t \in {_normalize_ticker(ticker)} :
        \E done \in {Ingest(prices, metrics, t, Market(t, day), fault, build)} :
           /\ prices' = done.prices
           /\ metrics' = done.metrics
           /\ resp' = [op |-> "refresh", ticker |-> t, rows |-> done.rows,
                       status |-> IF done.failed = "none" THEN 0 ELSE 1]
           /\ cli' = AfterTicker(cli, ticker, done.failed # "none")
           /\ UNCHANGED <<hist, day>>
           /\ UNCHANGED engineVars

(* lines 112-127: a failure of fetch_summary is swallowed, the command
   returns 0 *)
refresh_done ==
  /\ cli.pc = "loop"
  /\ cli.idx > Len(cli.tickers)
  /\ cli' = [cli EXCEPT !.pc = "exit", !.ret = 0, !.code = MainCode(FALSE, 0)]
  /\ UNCHANGED <<prices, metrics, hist, resp, day>>
  /\ UNCHANGED engineVars

UpperText(t) == AsSeq([i \in 1..Len(t) |-> Upper(t[i])], Len(t))

(* the latest metrics rows whose ticker, upper-cased, is t *)
LatestFor(mtable, t) ==
  SelectSeq(fetch_latest_metrics(mtable), LAMBDA r : UpperText(r.ticker) = t)

(* cmd_metrics: 2 without a ticker, 1 when fetch_latest_metrics raises or
   has no row for the ticker, 0 after printing; the read of the latest
   close is outside any try *)
MetricsOutcome(arg, mtable, fetchOk, queryOk) ==
  IF arg = <<>> THEN [raised |-> FALSE, fetched |-> FALSE, ret |-> 2]
  ELSE IF ~fetchOk THEN [raised |-> FALSE, fetched |-> FALSE, ret |-> 1]
  ELSE IF LatestFor(mtable, _normalize_ticker(arg)) = <<>>
  THEN [raised |-> FALSE, fetched |-> TRUE, ret |-> 1]
  ELSE IF ~queryOk THEN [raised |-> TRUE, fetched |-> TRUE, ret |-> 0]
  ELSE [raised |-> FALSE, fetched |-> TRUE, ret |-> 0]

cmd_metrics ==
  \E fetchOk \in BOOLEAN, queryOk \in BOOLEAN :
     LET out == MetricsOutcome(cli.ticker, metrics, fetchOk, queryOk)
     IN /\ cli.pc = "cmd_metrics"
        /\ cli' = [cli EXCEPT !.pc = "exit", !.log = Append(@, "cmd_metrics"),
                              !.raised = IF out.raised THEN "subcommand" ELSE "none",
                              !.fetched = out.fetched,
                              !.ret = out.ret,
                              !.code = MainCode(out.raised, out.ret)]
        /\ UNCHANGED <<prices, metrics, hist, resp, day>>
        /\ UNCHANGED engineVars

(* the process ends *)
exit ==
  /\ cli.pc = "exit"
  /\ cli' = Idle
  /\ UNCHANGED <<prices, metrics, hist, resp, day>>
  /\ UNCHANGED engineVars

AppNext ==
  \/ Tick
  \/ add_ticker
  \/ main
  \/ create_schema
  \/ cmd_refresh
  \/ refresh_ticker
  \/ refresh_done
  \/ cmd_metrics
  \/ exit

AppSpec == AppInit /\ [][AppNext]_vars

----------------------------------------------------------------------------
(* Vocabulary of the properties *)

Done == result.status # "none"

Ok == result.status = "ok"

BothOk == result.status = "ok" /\ base.result.status = "ok"

HasBothCols(frame) == AllCols \subseteq frame.cols

DateSet(recs) == {recs[i].date : i \in 1..Len(recs)}

DistinctDates(recs) == Cardinality(DateSet(recs))

NoRepeatedDate(recs) == DistinctDates(recs) = Len(recs)

(* closes non-null and >= 0 / > 0 *)
ClosesNonNegative(recs) ==
  \A i \in 1..Len(recs) : ~isna(recs[i].close) /\ recs[i].close[2] >= 0

ClosesPositive(recs) ==
  \A i \in 1..Len(recs) : ~isna(recs[i].close) /\ recs[i].close[2] > 0

RowsAt(rows, t) == SelectSeq(rows, LAMBDA r : r.date = t)

(* the two inputs are the same records, record by record, up to the closes *)
SameDates ==
  /\ Len(df.recs) = Len(base.df.recs)
  /\ \A i \in 1..Len(df.recs) : df.recs[i].date = base.df.recs[i].date

AgreeBefore(t) ==
  \A i \in 1..Len(df.recs) :
     df.recs[i].date < t => df.recs[i].close = base.df.recs[i].close

AgreeUpTo(t) ==
  \A i \in 1..Len(df.recs) :
     df.recs[i].date <= t => df.recs[i].close = base.df.recs[i].close

Count(recs, r) == Cardinality({i \in 1..Len(recs) : recs[i] = r})

IsPermutation(a, b) ==
  /\ Len(a) = Len(b)
  /\ \A i \in 1..Len(a) : Count(a, a[i]) = Count(b, a[i])

Rolling(row) == [f \in DropSubset |-> row[f]]

----------------------------------------------------------------------------
(* C1: length law.  Whenever an invocation on a frame with both columns has
   returned, the number of rows is max(0, N - 60), N the number of distinct
   dates of the input.  The code emits no row for the 61st record. *)
C1_LengthLaw ==
  Ok => Len(result.rows) = Max(0, DistinctDates(df.recs) - W60)

----------------------------------------------------------------------------
(* C2 as stated: two inputs with the same dates that agree on every close
   dated strictly before t have, when both outputs hold a row dated t, the
   same row at t in all seven numeric fields. *)
C2_NoLookAheadIncludingT ==
  (BothOk /\ SameDates) =>
    \A t \in DateSet(df.recs) :
       (/\ AgreeBefore(t)
        /\ RowsAt(result.rows, t) # <<>>
        /\ RowsAt(base.result.rows, t) # <<>>)
       => RowsAt(result.rows, t) = RowsAt(base.result.rows, t)

(* C2 amended: if the two inputs agree on every close dated at or before t,
   the rows dated t are the same in both outputs (all seven fields, and
   present in both or in neither); if they agree only strictly before t and
   no date is repeated, the rows dated t still agree on the six rolling
   fields, so only the return depends on the close at t. *)
C2_NoLookAhead ==
  (BothOk /\ SameDates) =>
    \A t \in DateSet(df.recs) :
       /\ AgreeUpTo(t) => RowsAt(result.rows, t) = RowsAt(base.result.rows, t)
       /\ (AgreeBefore(t) /\ NoRepeatedDate(df.recs)) =>
            LET new == RowsAt(result.rows, t)
                old == RowsAt(base.result.rows, t)
            IN /\ Len(new) = Len(old)
               /\ \A k \in 1..Len(new) : Rolling(new[k]) = Rolling(old[k])

(* an observation dated after an emitted row was changed, and one dated at
   an emitted row was changed *)
C2_Witness ==
  /\ BothOk /\ SameDates /\ NoRepeatedDate(df.recs)
  /\ \E t \in DateSet(df.recs) :
       /\ RowsAt(result.rows, t) # <<>>
       /\ RowsAt(base.result.rows, t) # <<>>
       /\ \E i \in 1..Len(df.recs) :
            /\ df.recs[i].date >= t
            /\ df.recs[i].close # base.df.recs[i].close

----------------------------------------------------------------------------
(* C3: no missing values.  For an input whose closes are non-null and >= 0,
   every emitted row has all seven numeric fields finite. *)
C3_AllFieldsFinite ==
  (Ok /\ ClosesNonNegative(df.recs)) =>
    \A k \in 1..Len(result.rows) :
       \A f \in NumericFields : IsFinite(result.rows[k][f])

----------------------------------------------------------------------------
(* C4: order independence.  An invocation on a permutation of the records of
   an earlier input returns the same rows in the same order. *)
C4_OrderIndependent ==
  (BothOk /\ IsPermutation(df.recs, base.df.recs)) =>
    result.rows = base.result.rows

----------------------------------------------------------------------------
(* C5: output ordering.  The dates of the returned rows are strictly
   ascending, so no date is in two rows. *)
C5_StrictlyAscending ==
  Ok => \A j, k \in 1..Len(result.rows) :
          j < k => result.rows[j].date < result.rows[k].date

----------------------------------------------------------------------------
(* the n-th date of the input in date order, for inputs without a repeated
   date, and the dates before it *)
DatesBefore(recs, d) == {e \in DateSet(recs) : e < d}

NthDate(recs, n) ==
  CHOOSE d \in DateSet(recs) : Cardinality(DatesBefore(recs, d)) = n - 1

FirstDates(recs, n) ==
  {d \in DateSet(recs) : Cardinality(DatesBefore(recs, d)) < n}

NoZeroVariance(recs, b) ==
  LET cand == Candidates(recs, b)
  IN \A i \in 1..Len(cand) : cand[i].vol20 # Zero /\ cand[i].vol60 # Zero

C6_Case ==
  /\ Ok
  /\ NoRepeatedDate(df.recs)
  /\ Len(df.recs) >= W60 + 2
  /\ ClosesPositive(df.recs)
  /\ NoZeroVariance(df.recs, build)

FirstRowAt62nd ==
  /\ result.rows # <<>>
  /\ result.rows[1].date = NthDate(df.recs, W60 + 2)
  /\ \A k \in 1..Len(result.rows) :
       result.rows[k].date \notin FirstDates(df.recs, W60 + 1)

(* C6 as stated: with at least 62 distinct dates, positive closes and no
   zero-variance window, the first row is dated at the 62nd observation, no
   row is dated at one of the first 61, and the output has N - 60 rows. *)
C6_FirstAdmissibleAndNMinus60 ==
  C6_Case => (FirstRowAt62nd /\ Len(result.rows) = Len(df.recs) - W60)

(* C6 amended: under the same conditions the first row is dated at the 62nd
   observation, no row is dated at one of the first 61, and the output has
   N - 61 rows. *)
C6_FirstAdmissible ==
  C6_Case => (FirstRowAt62nd /\ Len(result.rows) = Len(df.recs) - (W60 + 1))

C6_Witness == C6_Case /\ Len(result.rows) >= 2

----------------------------------------------------------------------------
(* C7: undersized input.  An invocation on a frame with both columns and
   fewer than 61 distinct dates returns, without raising, no rows. *)
C7_UndersizedEmpty ==
  (Done /\ HasBothCols(df) /\ DistinctDates(df.recs) < W60 + 1) =>
    (Ok /\ result.rows = <<>>)

----------------------------------------------------------------------------
(* a record without a close is a null close in a frame that has the column *)
LacksCloseOnSomeRecord ==
  \E i \in 1..Len(df.recs) : isna(df.recs[i].close)

Raised == result.status = "ValueError" /\ result.rows = <<>>

(* C8 as stated: an input that lacks the date field, or lacks the close
   field on any record, fails with ValueError and returns no rows. *)
C8_MalformedRaises ==
  (Done /\ (~HasBothCols(df) \/ LacksCloseOnSomeRecord)) => Raised

(* C8 amended: an input whose frame lacks the date column or the close
   column fails with ValueError and returns no rows; a frame that has both
   columns is not rejected, also when the close of a record is null. *)
C8_MissingColumnRaises ==
  Done => /\ ~HasBothCols(df) => Raised
          /\ HasBothCols(df) => Ok

C8_Witness == Done /\ "close" \notin df.cols /\ "date" \in df.cols /\ Raised

----------------------------------------------------------------------------
TestSeries == Frame("linear", TestLen, AllCols)

(* (num/den) / (100 + 0.5 * (i - 1)) *)
LinearReturn(i, num, den) == Rat(2 * num, den * (200 + (i - 1)))

(* the return series of the input, by zero-based sorted position 1 .. n-1,
   and the returns of the emitted rows (dates are 1 + the sorted position) *)
ReturnsAre(num, den) ==
  LET sorted == _ensure_datetime_and_sort(df.recs, build.ties)
      close == AsSeq([i \in 1..Len(sorted) |-> sorted[i].close], Len(sorted))
      ret == pct_change(close, build.pad)
  IN /\ \A i \in 1..(Len(ret) - 1) : ret[i + 1] = LinearReturn(i, num, den)
     /\ \A k \in 1..Len(result.rows) :
          result.rows[k].return = LinearReturn(result.rows[k].date - 1, num, den)

ReturnsDecrease ==
  \A k \in 1..(Len(result.rows) - 1) :
     RatLess(result.rows[k + 1].return, result.rows[k].return)

(* C9 as stated: on the 130-point series close[i] = 100 + 0.5 i the return at
   position i >= 1 is 0.005 / (100 + 0.5 (i - 1)), the emitted returns
   decrease strictly, and there are 130 - 60 = 70 rows. *)
C9_LinearSeriesAsStated ==
  (Ok /\ df = TestSeries) =>
    /\ ReturnsAre(5, 1000)
    /\ ReturnsDecrease
    /\ Len(result.rows) = TestLen - W60

(* C9 amended: on that series the return at position i >= 1 is
   0.5 / (100 + 0.5 (i - 1)), the emitted returns decrease strictly, and
   there are 130 - 61 = 69 rows. *)
C9_LinearSeries ==
  (Ok /\ df = TestSeries) =>
    /\ ReturnsAre(1, 2)
    /\ ReturnsDecrease
    /\ Len(result.rows) = TestLen - (W60 + 1)

C9_Witness == Ok /\ df = TestSeries /\ Len(result.rows) > 1

----------------------------------------------------------------------------
IsFlat(recs) ==
  /\ Len(recs) >= W60 + 1
  /\ ClosesPositive(recs)
  /\ \A i \in 1..Len(recs) : recs[i].close = recs[1].close

(* C10: flat series.  On a constant positive series of length >= 61 every
   row with full trailing history has vol20 = vol60 = 0 and NaN sharpe20 and
   sharpe60, and the invocation returns, without raising, no rows. *)
C10_FlatSeriesEmpty ==
  (Done /\ HasBothCols(df) /\ IsFlat(df.recs)) =>
    /\ Ok
    /\ result.rows = <<>>
    /\ LET cand == Candidates(df.recs, build)
       IN \A i \in (W60 + 2)..Len(cand) :
             /\ cand[i].vol20 = Zero /\ cand[i].vol60 = Zero
             /\ isna(cand[i].sharpe20) /\ isna(cand[i].sharpe60)

C10_Witness ==
  Done /\ HasBothCols(df) /\ IsFlat(df.recs) /\ Len(df.recs) >= W60 + 2

----------------------------------------------------------------------------
(* C11: non-finite sharpe handling.  An invocation on a frame with both
   columns raises nothing, and a date whose window of 20 or of 60 returns
   has zero standard deviation has no row in the output. *)
C11_ZeroStdExcluded ==
  (Done /\ HasBothCols(df)) =>
    /\ Ok
    /\ LET cand == Candidates(df.recs, build)
       IN \A i \in 1..Len(cand) :
             (cand[i].vol20 = Zero \/ cand[i].vol60 = Zero)
             => RowsAt(result.rows, cand[i].date) = <<>>

----------------------------------------------------------------------------
(* the closes and the returns by place in date order, for inputs without a
   repeated date *)
PlaceOf(recs, d) == 1 + Cardinality(DatesBefore(recs, d))

ClosesByDate(recs) ==
  LET place == AsSeq([k \in 1..Len(recs) |-> PlaceOf(recs, recs[k].date)], Len(recs))
  IN AsSeq([p \in 1..Len(recs) |->
              recs[CHOOSE k \in 1..Len(recs) : place[k] = p].close],
           Len(recs))

ReturnsByDate(recs) ==
  LET close == ClosesByDate(recs)
  IN AsSeq([p \in 1..Len(recs) |->
              IF p = 1 THEN NaN ELSE PctCell(close[p - 1], close[p])],
           Len(recs))

ClosesNonNull(recs) == \A i \in 1..Len(recs) : ~isna(recs[i].close)

C12_Case == Ok /\ NoRepeatedDate(df.recs) /\ ClosesNonNull(df.recs)

(* C12: trailing-exclusive windows.  The row emitted for place i of the date
   order holds the statistics of places i-w .. i-1: vol20 / vol60 the std of
   the 20 / 60 returns there, sma20 / sma50 the mean of the 20 / 50 closes
   there, sharpe20 / sharpe60 the mean of those returns divided by their
   std; place i itself enters only the return. *)
C12_TrailingWindows ==
  C12_Case =>
    LET close == ClosesByDate(df.recs)
        ret == ReturnsByDate(df.recs)
    IN \A k \in 1..Len(result.rows) :
          LET row == result.rows[k]
              i == PlaceOf(df.recs, row.date)
              r20 == SubSeq(ret, i - W20, i - 1)
              r60 == SubSeq(ret, i - W60, i - 1)
          IN /\ i > W60 + 1
             /\ row.return = ret[i]
             /\ row.vol20 = Std(r20)
             /\ row.vol60 = Std(r60)
             /\ row.sma20 = Mean(SubSeq(close, i - W20, i - 1))
             /\ row.sma50 = Mean(SubSeq(close, i - W50, i - 1))
             /\ row.sharpe20 = Div(Mean(r20), Std(r20))
             /\ row.sharpe60 = Div(Mean(r60), Std(r60))

C12_Witness == C12_Case /\ Len(result.rows) >= 2

----------------------------------------------------------------------------
(* the frame the caller holds when an invocation returns is the frame it
   handed over *)
C13_InputLeftAlone ==
  (result.status = "none" /\ result'.status # "none") => df' = df

(* an invocation on the input of the invocation before it returns what that
   one returned *)
C13_EqualInputsEqualOutputs ==
  (Done /\ base # NoBase /\ df = base.df) => result = base.result

(* C13: statelessness and frame.  An invocation leaves the caller's frame as
   it was (same records, same order, same columns), and an invocation on an
   input that was computed before, whatever was done to the frame in
   between, returns the same output. *)
C13_StatelessAndFrame ==
  [][C13_InputLeftAlone]_vars /\ []C13_EqualInputsEqualOutputs

C13_Witness ==
  /\ Ok /\ base # NoBase /\ df = base.df
  /\ Len(result.rows) >= 2

----------------------------------------------------------------------------
IsExtension ==
  /\ Len(df.recs) > Len(base.df.recs)
  /\ SubSeq(df.recs, 1, Len(base.df.recs)) = base.df.recs
  /\ \A i \in 1..Len(df.recs) :
        i > Len(base.df.recs) => df.recs[i].date > LastDate(base.df.recs)

(* C19: append stability.  When the input is the previous input followed by
   observations dated after all of its dates, the output starts with the
   rows of the previous output, field by field, and every further row is
   dated after the previous input's last date. *)
C19_AppendStable ==
  (BothOk /\ IsExtension) =>
    /\ Len(result.rows) >= Len(base.result.rows)
    /\ SubSeq(result.rows, 1, Len(base.result.rows)) = base.result.rows
    /\ \A k \in 1..Len(result.rows) :
          k > Len(base.result.rows)
          => result.rows[k].date > LastDate(base.df.recs)

----------------------------------------------------------------------------
(* the records handed to op so far, in the order they were written, each
   wrapped in a tuple *)
Written(op) ==
  LET calls == SelectSeq(hist, LAMBDA c : c.op = op)
      total == Len(calls) * MaxBatch
      flat == [n \in 1..total |->
                 LET c == ((n - 1) \div MaxBatch) + 1
                     k == ((n - 1) % MaxBatch) + 1
                 IN IF k <= Len(calls[c].rows) THEN <<calls[c].rows[k]>> ELSE <<>>]
  IN SelectSeq(AsSeq(flat, total), LAMBDA x : x # <<>>)

(* table holds, for every key ever written, one row: the last one written *)
LastWriteWins(table, written) ==
  /\ \A n \in 1..Len(written) :
        (\A m \in (n + 1)..Len(written) : KeyOf(written[m][1]) # KeyOf(written[n][1]))
        => written[n][1] \in table
  /\ \A r \in table : \E n \in 1..Len(written) : KeyOf(written[n][1]) = KeyOf(r)
  /\ Cardinality(Keys(table)) = Cardinality(table)

C14_LastWriteWins ==
  /\ LastWriteWins(prices, Written("upsert_prices"))
  /\ LastWriteWins(metrics, Written("upsert_metrics"))

(* the step is a call that hands the batch of the call before it to the
   same helper *)
C14_Reapplied ==
  /\ Len(hist') = Len(hist) + 1
  /\ hist # <<>>
  /\ hist'[Len(hist')] = hist[Len(hist)]

C14_Idempotent ==
  C14_Reapplied => (prices' = prices /\ metrics' = metrics)

(* C14: keyed overwrite.  After any sequence of upsert_prices and
   upsert_metrics calls each table holds exactly one row per (ticker, date)
   key ever handed over, with the values of the last record handed over
   under that key, within a batch too; handing the same batch over again
   leaves the table as it is. *)
C14_KeyedOverwrite ==
  []C14_LastWriteWins /\ [][C14_Idempotent]_vars

C14_Witness ==
  /\ Len(hist) = 2
  /\ hist[1] = hist[2]
  /\ hist[1].op = "upsert_metrics"
  /\ hist[1].rows = <<MetricRow(Ticker_A, 9, Rat(1, 1)), MetricRow(Ticker_A, 9, Rat(2, 1))>>
  /\ metrics = {MetricRow(Ticker_A, 9, Rat(2, 1))}

----------------------------------------------------------------------------
TickersOf(table) == {r.ticker : r \in table}

Fetched == resp.op = "fetch_latest_metrics"

(* C15: latest row per instrument.  fetch_latest_metrics returns one row
   for each ticker that has a metrics row, none for any other ticker, and
   the row returned for a ticker is its stored row of the greatest date. *)
C15_LatestPerTicker ==
  Fetched =>
    /\ \A t \in TickersOf(metrics) :
          \E k \in 1..Len(resp.rows) :
             /\ resp.rows[k].ticker = t
             /\ resp.rows[k] \in metrics
             /\ \A r \in metrics :
                   r.ticker = t => ParseDate(r.date) <= ParseDate(resp.rows[k].date)
             /\ \A j \in 1..Len(resp.rows) : resp.rows[j].ticker = t => j = k
    /\ \A k \in 1..Len(resp.rows) : resp.rows[k].ticker \in TickersOf(metrics)

C15_Witness ==
  /\ Fetched
  /\ Len(resp.rows) = 1
  /\ resp.rows[1] = MetricRow(Ticker_A, 10, Rat(1, 1))
  /\ MetricRow(Ticker_A, 9, Rat(2, 1)) \in metrics
  /\ Ticker_B \in TickersOf(prices)

----------------------------------------------------------------------------
Tracked == {r.ticker : r \in prices} \cup {r.ticker : r \in metrics}

Added == resp.op = "add_ticker" /\ resp.status = 201

(* C16: registration by add_ticker.  Once add_ticker has answered 201 for a
   ticker, the normalized ticker is among the tracked tickers. *)
C16_Registered ==
  Added =>
    \E i \in 1..Len(_get_tracked_tickers(prices, metrics)) :
       _get_tracked_tickers(prices, metrics)[i] = resp.ticker

----------------------------------------------------------------------------
Exited == cli.pc = "exit"

RefreshRan == Exited /\ cli.cmd = "refresh" /\ cli.raised # "create_schema"

(* every tracked ticker was attempted once, in the order of the tracked
   list, and each attempt was counted as processed or as an error *)
AllAttempted ==
  /\ cli.attempted = _get_tracked_tickers(prices, metrics)
  /\ cli.processed + Len(cli.errors) = Len(cli.attempted)
  /\ \A e \in 1..Len(cli.errors) :
        \E i \in 1..Len(cli.attempted) : cli.attempted[i] = cli.errors[e]

(* cmd_refresh attempts every tracked ticker once and in order, counts each
   as processed or as an error, and main returns 0, in every case. *)
C17_RefreshIsolatedAlwaysZero ==
  RefreshRan => (AllAttempted /\ cli.code = 0)

(* C17: refresh failure isolation.  When the tracked tickers could be read,
   cmd_refresh attempts every one of them once and in order, whatever
   failed for the tickers before it, counts each as processed or as an
   error, and returns 0, also when nothing is tracked; when that read
   fails, no ticker is attempted and main returns 1. *)
C17_RefreshIsolated ==
  /\ RefreshRan =>
       IF cli.raised = "subcommand"
       THEN cli.attempted = <<>> /\ cli.code = 1
       ELSE AllAttempted /\ cli.code = 0 /\ cli.ret = 0
  /\ cli.pc = "loop" =>
       /\ cli.tickers = _get_tracked_tickers(prices, metrics)
       /\ cli.attempted = SubSeq(cli.tickers, 1, cli.idx - 1)
       /\ cli.processed + Len(cli.errors) = cli.idx - 1

C17_Witness ==
  /\ RefreshRan
  /\ cli.raised = "none"
  /\ cli.attempted = <<Ticker_A, Ticker_B>>
  /\ cli.errors = <<Ticker_A>>
  /\ cli.processed = 1
  /\ resp.rows = <<>> /\ resp.ticker = Ticker_B /\ resp.status = 0

----------------------------------------------------------------------------
HasLatest == LatestFor(metrics, _normalize_ticker(cli.ticker)) # <<>>

(* create_schema runs first; when it fails nothing else runs and the code
   is 1; when the subcommand raises the code is 1; otherwise the code is the
   subcommand's return value *)
MainOrderAndCodes ==
  /\ cli.log # <<>> /\ cli.log[1] = "create_schema"
  /\ cli.raised = "create_schema" => (Len(cli.log) = 1 /\ cli.code = 1)
  /\ cli.raised = "subcommand" => (Len(cli.log) = 2 /\ cli.code = 1)
  /\ cli.raised = "none" =>
       (Len(cli.log) = 2 /\ cli.log[2] = "cmd_" \o cli.cmd /\ cli.code = cli.ret)

MetricsReturned == Exited /\ cli.cmd = "metrics" /\ cli.raised = "none"

(* main runs create_schema before the subcommand and returns 1 when either
   raises, else the subcommand's return value; cmd_metrics returns 0 when a
   latest metrics row of the ticker exists, and 1 when the fetch fails or no
   such row exists. *)
C18_ExitCodesAsStated ==
  /\ Exited => MainOrderAndCodes
  /\ MetricsReturned =>
       IF cli.fetched /\ HasLatest THEN cli.ret = 0 ELSE cli.ret = 1

(* C18: CLI ordering and exit codes.  main runs create_schema before the
   subcommand; it returns 1 when create_schema fails, and then no
   subcommand runs, and 1 when the subcommand raises; otherwise it returns
   the subcommand's return value, which for cmd_metrics is 2 when the
   ticker argument is empty, else 0 when a latest metrics row of the ticker
   exists and was fetched, else 1. *)
C18_ExitCodes ==
  /\ Exited => MainOrderAndCodes
  /\ MetricsReturned =>
       IF cli.ticker = <<>> THEN cli.ret = 2
       ELSE IF cli.fetched /\ HasLatest THEN cli.ret = 0
       ELSE cli.ret = 1

C18_Witness ==
  /\ MetricsReturned
  /\ cli.ticker = <<"a">>
  /\ cli.code = 0
  /\ Cardinality({r \in metrics : r.ticker = Ticker_A}) = 2

----------------------------------------------------------------------------
WrittenKeys(rows) == {KeyOf(rows[k]) : k \in 1..Len(rows)}

C20_NothingDeleted ==
  /\ Keys(prices) \subseteq Keys(prices')
  /\ Keys(metrics) \subseteq Keys(metrics')
  /\ Tracked \subseteq Tracked'
  /\ \A r \in metrics : r \in metrics' \/ KeyOf(r) \in WrittenKeys(resp'.rows)

(* C20: store monotonicity.  No step of add_ticker or of a refresh removes a
   key from prices or from metrics or a ticker from the tracked set, and a
   metrics row whose date the step's computation did not produce stays
   stored with the values it had. *)
C20_StoreMonotone == [][C20_NothingDeleted]_vars

C20_Witness ==
  /\ resp.op = "refresh"
  /\ resp.ticker = Ticker_A
  /\ WrittenKeys(resp.rows) = {<<Ticker_A, strftime(HistLen + 1)>>}
  /\ metrics_rows(Ticker_A, _download_prices_for_ticker(Market(Ticker_A, 0), "none").rows, build)[1]
       \in metrics
  /\ Cardinality(metrics) = 2

====
